---- MODULE Spec2Model ----
(***************************************************************************)
(* Model of VRC_OSC_ChatBox_Stats_NvidiaAndAMD.py: the sensor readers, the *)
(* message composition and truncation of send_data_to_vrchat, the daemon   *)
(* threads started by toggle_sending, and send_chat_message.               *)
(*                                                                         *)
(* Text is modelled by TLA+ strings, one character per Python code point.  *)
(* The six pictographs of the source are single code points in Python; a   *)
(* one-character ASCII stand-in is used for each so that len() agrees.     *)
(***************************************************************************)
EXTENDS Integers, Sequences, FiniteSets, TLC

(***************************************************************************)
(* Python str primitives used by the source.                               *)
(***************************************************************************)
Ch(s, i) == SubSeq(s, i, i)

SetMin(S) == CHOOSE x \in S : \A y \in S : x <= y

SetMax(S) == CHOOSE x \in S : \A y \in S : x >= y

\* characters str.strip() and str.split() treat as whitespace
IsSpace(c) == c \in {" ", "\n", "\t", "\r"}

\* a strip() that trims blanks only
StripBlanks(s) ==
  LET keep == {i \in 1..Len(s) : Ch(s, i) # " "}
  IN  IF keep = {} THEN "" ELSE SubSeq(s, SetMin(keep), SetMax(keep))

\* str.strip()
Strip(s) ==
  LET keep == {i \in 1..Len(s) : ~IsSpace(Ch(s, i))}
  IN  IF keep = {} THEN "" ELSE SubSeq(s, SetMin(keep), SetMax(keep))

\* str.startswith(p)
StartsWith(s, p) == Len(s) >= Len(p) /\ SubSeq(s, 1, Len(p)) = p

\* index of the first occurrence of sep in s at or after position from, 0 if none
Find(s, sep, from) ==
  LET hits == {i \in from..(Len(s) - Len(sep) + 1) : SubSeq(s, i, i + Len(sep) - 1) = sep}
  IN  IF hits = {} THEN 0 ELSE SetMin(hits)

\* s[:n]
Clip(s, n) == IF Len(s) > n THEN SubSeq(s, 1, n) ELSE s

RECURSIVE Split(_, _)
\* str.split(sep): the pieces between the occurrences of sep, left to right
Split(s, sep) ==
  LET i == Find(s, sep, 1)
  IN  IF i = 0 THEN <<s>>
      ELSE <<SubSeq(s, 1, i - 1)>> \o Split(SubSeq(s, i + Len(sep), Len(s)), sep)

\* str.split(sep, 1)
Split1(s, sep) ==
  LET i == Find(s, sep, 1)
  IN  IF i = 0 THEN <<s>>
      ELSE <<SubSeq(s, 1, i - 1), SubSeq(s, i + Len(sep), Len(s))>>

RECURSIVE SplitWs(_)
\* str.split() without argument: the maximal runs of non-whitespace
SplitWs(s) ==
  LET t == Strip(s)
      sp == {i \in 1..Len(t) : IsSpace(Ch(t, i))}
  IN  IF t = "" THEN <<>>
      ELSE IF sp = {} THEN <<t>>
      ELSE <<SubSeq(t, 1, SetMin(sp) - 1)>> \o SplitWs(SubSeq(t, SetMin(sp), Len(t)))

RECURSIVE Remove(_, _)
\* str.replace(c, '') for a one-character c
Remove(s, c) ==
  IF s = "" THEN ""
  ELSE (IF Ch(s, 1) = c THEN "" ELSE Ch(s, 1)) \o Remove(SubSeq(s, 2, Len(s)), c)

UpperCase == "ABCDEFGHIJKLMNOPQRSTUVWXYZ"

LowerCase == "abcdefghijklmnopqrstuvwxyz"

LowerCh(c) ==
  LET k == Find(UpperCase, c, 1) IN IF k = 0 THEN c ELSE Ch(LowerCase, k)

RECURSIVE Lower(_)
\* str.lower()
Lower(s) == IF s = "" THEN "" ELSE LowerCh(Ch(s, 1)) \o Lower(SubSeq(s, 2, Len(s)))

Digits == "0123456789"

IsDigit(c) == Len(c) = 1 /\ Find(Digits, c, 1) # 0

DigitVal(c) == Find(Digits, c, 1) - 1

AllDigits(s) == s # "" /\ \A i \in 1..Len(s) : IsDigit(Ch(s, i))

RECURSIVE DecVal(_)
DecVal(s) == IF s = "" THEN 0 ELSE 10 * DecVal(SubSeq(s, 1, Len(s) - 1)) + DigitVal(Ch(s, Len(s)))

\* The outcome of a call: exc is "None" when it returned val, and otherwise the
\* class of the exception it raised.
Returned(v) == [exc |-> "None", val |-> v]

RaisedInt(cls) == [exc |-> cls, val |-> 0]

RaisedStr(cls) == [exc |-> cls, val |-> ""]

\* int(s): surrounding whitespace and one sign are accepted, then decimal
\* digits only; anything else is a ValueError
PyInt(s) ==
  LET t == Strip(s)
      signed == t # "" /\ Ch(t, 1) \in {"+", "-"}
      body == IF signed THEN SubSeq(t, 2, Len(t)) ELSE t
  IN  IF ~AllDigits(body) THEN RaisedInt("ValueError")
      ELSE Returned(IF signed /\ Ch(t, 1) = "-" THEN 0 - DecVal(body) ELSE DecVal(body))

RECURSIVE RemoveStr(_, _)
\* str.replace(sub, '') for a non-empty sub
RemoveStr(s, sub) ==
  LET i == Find(s, sub, 1)
  IN  IF i = 0 THEN s
      ELSE SubSeq(s, 1, i - 1) \o RemoveStr(SubSeq(s, i + Len(sub), Len(s)), sub)

\* float(s) for the decimal notation the utilities print (digits, optionally a
\* point and one or two digits), as a count of hundredths; anything else is
\* a ValueError
PyFloat(s) ==
  LET t == Strip(s)
      p == Split(t, ".")
      frac == IF Len(p) = 2 THEN p[2] ELSE "0"
  IN  IF Len(p) > 2 \/ ~AllDigits(p[1]) \/ ~AllDigits(frac) \/ Len(frac) > 2
      THEN RaisedInt("ValueError")
      ELSE Returned(100 * DecVal(p[1]) + (IF Len(frac) = 1 THEN 10 * DecVal(frac) ELSE DecVal(frac)))

RECURSIVE GCD(_, _)
GCD(a, b) == IF b = 0 THEN a ELSE GCD(b, a % b)

\* num/den rounded to the nearest integer, ties to even (Python's round)
RoundHalfEven(num, den) ==
  LET q == num \div den
      r == num % den
  IN  IF 2 * r > den \/ (2 * r = den /\ q % 2 = 1) THEN q + 1 ELSE q

\* round(n * scale / den): the common factor of n and den is divided out first,
\* which leaves the quotient unchanged
RoundScaled(n, scale, den) ==
  LET g == GCD(den, IF n < 0 THEN 0 - n ELSE n) IN RoundHalfEven((n \div g) * scale, den \div g)

\* str() of a float held as a count of tenths: one decimal
Str1(t) ==
  IF t < 0 THEN "-" \o ToString((0 - t) \div 10) \o "." \o ToString((0 - t) % 10)
  ELSE ToString(t \div 10) \o "." \o ToString(t % 10)

\* str() of a float held as a count of hundredths: a trailing zero of the
\* second decimal is not printed
Str2(h) ==
  IF h % 10 = 0 THEN Str1(h \div 10)
  ELSE ToString(h \div 100) \o "." \o ToString((h % 100) \div 10) \o ToString(h % 10)

\* strftime's two-digit fields
TwoDigits(n) == IF n < 10 THEN "0" \o ToString(n) ELSE ToString(n)

(***************************************************************************)
(* The pictographs that open the fragments (one code point each in the     *)
(* source; the two GPU readers share one).                                 *)
(***************************************************************************)
PENGUIN == "~"

CLOCK == "^"

NOTE == "*"

COMPUTER == "$"

FLOPPY == "&"

GAMEPAD == "!"

(***************************************************************************)
(* Sensor readers.  Each takes what its external source answers and gives  *)
(* the fragment it returns, or the exception that leaves it.               *)
(***************************************************************************)
RECURSIVE DistroFields(_, _, _)
\* the for loop over the lines of /etc/os-release: a later NAME= or VERSION=
\* line overwrites an earlier one
DistroFields(lines, distro_name, distro_version) ==
  IF lines = <<>> THEN <<distro_name, distro_version>>
  ELSE LET line == Head(lines)
           value == Remove(Split(Strip(line), "=")[2], "\"")
       IN  IF StartsWith(line, "NAME=") THEN DistroFields(Tail(lines), value, distro_version)
           ELSE IF StartsWith(line, "VERSION=") THEN DistroFields(Tail(lines), distro_name, value)
           ELSE DistroFields(Tail(lines), distro_name, distro_version)

get_linux_distro(os_release) ==
  IF os_release.exc = "FileNotFoundError" THEN Returned(PENGUIN \o " Unknown Linux Distro")
  ELSE IF os_release.exc # "None" THEN RaisedStr(os_release.exc)
  ELSE LET f == DistroFields(os_release.lines, "", "")
       IN  Returned(PENGUIN \o " " \o f[1] \o " " \o f[2])

\* the body of the inner try for one player: its metadata mapping is read, the
\* title clipped to 25 and the first artist to 15
PlayerFragment(player) ==
  IF player.exc # "None" THEN RaisedStr(player.exc)
  ELSE LET title == Clip(IF player.has_title THEN player.title ELSE "Unknown Title", 25)
           artists == IF player.has_artist THEN player.artist ELSE <<"Unknown Artist">>
       IN  IF artists = <<>> THEN RaisedStr("IndexError")
           ELSE Returned(NOTE \o " " \o title \o " - " \o Clip(artists[1], 15))

RECURSIVE TryPlayers(_, _)
\* the for loop over the players: a DBusException moves on to the next one,
\* every other outcome leaves the loop
TryPlayers(players, objects) ==
  IF players = <<>> THEN Returned(NOTE \o " No media playing")
  ELSE LET r == PlayerFragment(objects[Head(players)])
       IN  IF r.exc = "DBusException" THEN TryPlayers(Tail(players), objects) ELSE r

get_media_info(bus) ==
  IF bus.exc = "DBusException" THEN Returned(NOTE \o " No media player detected")
  ELSE IF bus.exc # "None" THEN RaisedStr(bus.exc)
  ELSE TryPlayers(SelectSeq(bus.names, LAMBDA name : StartsWith(name, "org.mpris.MediaPlayer2.")),
                  bus.objects)

get_gpu_usage(nvidia_smi) ==
  LET gpu_stats == Split(Strip(nvidia_smi.stdout), ", ")
      failed == Returned(GAMEPAD \o " No GPU or error retrieving GPU stats")
  IN  IF nvidia_smi.exc # "None" THEN failed
      ELSE IF Len(gpu_stats) # 3 THEN Returned(GAMEPAD \o " Error retrieving GPU stats")
      ELSE LET free == PyInt(gpu_stats[2])
               total == PyInt(gpu_stats[3])
               gpu_memory_free == RoundScaled(free.val, 10, 1024)
               gpu_memory_total == RoundScaled(total.val, 10, 1024)
               gpu_memory_used == gpu_memory_total - gpu_memory_free
           IN  IF free.exc # "None" \/ total.exc # "None" THEN failed
               ELSE Returned(GAMEPAD \o " " \o gpu_stats[1] \o "% | " \o Str1(gpu_memory_used)
                             \o "GB / " \o Str1(gpu_memory_total) \o "GB")

\* the for loop over the comma-separated parts of radeontop's line: the last
\* gpu and vram parts win; val is <<gpu_usage, vram_mb_used>>, with "" and -1
\* for None
RECURSIVE AmdParts(_, _, _)
AmdParts(parts, gpu_usage, vram_mb_used) ==
  IF parts = <<>> THEN Returned(<<gpu_usage, vram_mb_used>>)
  ELSE LET tokens == SplitWs(Head(parts))
           key == IF tokens = <<>> THEN "" ELSE Lower(tokens[1])
       IN  IF tokens = <<>> THEN AmdParts(Tail(parts), gpu_usage, vram_mb_used)
           ELSE IF key = "gpu" /\ Len(tokens) >= 2
           THEN AmdParts(Tail(parts), <<Remove(tokens[2], "%")>>, vram_mb_used)
           ELSE IF key = "vram" /\ Len(tokens) >= 3
           THEN LET v == PyFloat(RemoveStr(Lower(tokens[3]), "mb"))
                IN  IF v.exc # "None" THEN [exc |-> v.exc, val |-> <<gpu_usage, vram_mb_used>>]
                    ELSE AmdParts(Tail(parts), gpu_usage, v.val)
           ELSE AmdParts(Tail(parts), gpu_usage, vram_mb_used)

get_amdgpu_usage(radeontop, mem_info_vram_total) ==
  LET stripped == Strip(radeontop.stdout)
      output == IF Find(stripped, ":", 1) # 0 THEN Strip(Split1(stripped, ":")[2]) ELSE stripped
      found == AmdParts(Split(output, ","), <<>>, -1)
      failed == Returned(GAMEPAD \o " No GPU or error retrieving GPU stats")
  IN  IF radeontop.exc # "None" \/ found.exc # "None" THEN failed
      ELSE IF found.val[1] = <<>> \/ found.val[2] = -1
      THEN Returned(GAMEPAD \o " Error retrieving GPU stats")
      ELSE LET vram_total_bytes == PyInt(mem_info_vram_total.text)
           IN  IF mem_info_vram_total.exc # "None" \/ vram_total_bytes.exc # "None"
               THEN failed
               ELSE Returned(GAMEPAD \o " " \o found.val[1][1] \o "% | "
                             \o Str2(RoundHalfEven(found.val[2], 1024)) \o "GB / "
                             \o Str2(RoundScaled(vram_total_bytes.val, 100, 1024 * 1024 * 1024))
                             \o "GB")

\* a get_system_usage whose except clause returns empty values
get_system_usage_blank(psutil) ==
  IF psutil.exc # "None" THEN <<"", "", "", "">>
  ELSE <<Str1(psutil.cpu_percent),
         Str2(RoundHalfEven(psutil.cpu_freq_current, 10)),
         Str1(RoundScaled(psutil.used, 10, 1024 * 1024 * 1024)),
         Str1(RoundScaled(psutil.total, 10, 1024 * 1024 * 1024))>>

\* the four values are held as the text the f-strings of the composer print
get_system_usage(psutil) ==
  IF psutil.exc # "None" THEN <<"Error", "Error", "Error", "Error">>
  ELSE <<Str1(psutil.cpu_percent),
         Str2(RoundHalfEven(psutil.cpu_freq_current, 10)),
         Str1(RoundScaled(psutil.used, 10, 1024 * 1024 * 1024)),
         Str1(RoundScaled(psutil.total, 10, 1024 * 1024 * 1024))>>

get_current_time(is_24hr, now) ==
  IF is_24hr
  THEN TwoDigits(now.hour) \o ":" \o TwoDigits(now.minute) \o ":" \o TwoDigits(now.second)
  ELSE TwoDigits(((now.hour + 11) % 12) + 1) \o ":" \o TwoDigits(now.minute) \o ":"
       \o TwoDigits(now.second) \o " " \o (IF now.hour < 12 THEN "AM" ELSE "PM")

(***************************************************************************)
(* What the external sources can answer.                                   *)
(***************************************************************************)
OsReleaseFile ==
  [exc |-> "None",
   lines |-> <<"NAME=\"Red Hat Enterprise Linux Server\"\n", "VERSION=\"7.9 (Maipo)\"\n",
               "ID=\"rhel\"\n", "VERSION_ID=\"7.9\"\n",
               "PRETTY_NAME=\"Red Hat Enterprise Linux Server 7.9 (Maipo)\"\n">>]

OsReleaseMissing == [exc |-> "FileNotFoundError", lines |-> <<>>]

OsReleaseUnreadable == [exc |-> "PermissionError", lines |-> <<>>]

Metadata(title, artist) ==
  [exc |-> "None", has_title |-> TRUE, title |-> title, has_artist |-> TRUE, artist |-> artist]

PlayerGone == [Metadata("", <<>>) EXCEPT !.exc = "DBusException"]

\* a player that answers after one that does not
BusPlaying ==
  [exc |-> "None",
   names |-> <<"org.freedesktop.DBus", "org.mpris.MediaPlayer2.vlc", "org.mpris.MediaPlayer2.spotify">>,
   objects |-> [n \in {"org.mpris.MediaPlayer2.vlc", "org.mpris.MediaPlayer2.spotify"} |->
                  IF n = "org.mpris.MediaPlayer2.vlc" THEN PlayerGone
                  ELSE Metadata("Never Gonna Give You Up (2022 Remaster)",
                                <<"Rick Astley and friends", "Somebody Else">>)]]

BusNoPlayer ==
  [exc |-> "None", names |-> <<"org.freedesktop.DBus">>,
   objects |-> [n \in {"org.mpris.MediaPlayer2.vlc"} |-> PlayerGone]]

BusUnreachable == [BusNoPlayer EXCEPT !.exc = "DBusException"]

\* a player whose metadata holds an empty xesam:artist list
BusNoArtist ==
  [exc |-> "None", names |-> <<"org.mpris.MediaPlayer2.mpv">>,
   objects |-> [n \in {"org.mpris.MediaPlayer2.mpv"} |-> Metadata("Intro", <<>>)]]

NvidiaSmi == [exc |-> "None", stdout |-> "42, 3174, 8192\n"]

NvidiaSmiMissing == [exc |-> "FileNotFoundError", stdout |-> ""]

NvidiaSmiNoDevice == [exc |-> "None", stdout |-> "No devices were found\n"]

Radeontop ==
  [exc |-> "None",
   stdout |-> "1700000000.12: bus 0b, gpu 57.00%, ee 0.00%, vram 12.91% 512.00mb, gtt 1.49% 100.00mb\n"]

RadeontopMissing == [exc |-> "FileNotFoundError", stdout |-> ""]

VramTotalFile == [exc |-> "None", text |-> "1073741824\n"]

Psutil ==
  [exc |-> "None", cpu_percent |-> 230, cpu_freq_current |-> 3200,
   used |-> 805306368, total |-> 1610612736]

\* psutil.cpu_freq() gives None where the platform reports no frequency
PsutilNoFreq == [Psutil EXCEPT !.exc = "AttributeError"]

Afternoon == [hour |-> 13, minute |-> 5, second |-> 9]

World(os, bus, nv, amd, ps) ==
  [os_release |-> os, session_bus |-> bus, nvidia_smi |-> nv, radeontop |-> amd,
   mem_info_vram_total |-> VramTotalFile, psutil |-> ps, now |-> Afternoon]

\* every source answers
Healthy == World(OsReleaseFile, BusPlaying, NvidiaSmi, Radeontop, Psutil)

\* every source fails in a way its reader catches
Degraded == World(OsReleaseMissing, BusUnreachable, NvidiaSmiMissing, RadeontopMissing, PsutilNoFreq)

\* the media player publishes no artist
NoArtist == [Healthy EXCEPT !.session_bus = BusNoArtist]

\* /etc/os-release exists and cannot be read
Unreadable == [Degraded EXCEPT !.os_release = OsReleaseUnreadable, !.session_bus = BusNoPlayer]

Worlds == {Healthy, Degraded, NoArtist, Unreadable}

\* every answer of the OS file, the bus and psutil, with both GPU utilities
\* answering or both failing
AllWorlds ==
  {World(os, bus, gpus[1], gpus[2], ps) :
     os \in {OsReleaseFile, OsReleaseMissing, OsReleaseUnreadable},
     bus \in {BusPlaying, BusNoPlayer, BusUnreachable, BusNoArtist},
     gpus \in {<<NvidiaSmi, Radeontop>>, <<NvidiaSmiNoDevice, RadeontopMissing>>},
     ps \in {Psutil, PsutilNoFreq}}

\* what the user can have typed in the chat text widget and the duration entry
ChatTexts == {"", " \n ", " hi\n"}

DurationEntries == {"5", " 12 ", "", "five", "2.5", "-3"}

(***************************************************************************)
(* Bounds of the model.                                                    *)
(***************************************************************************)
\* threads toggle_sending can have started
MaxThreads == 2

\* checkbox clicks after construction
MaxClicks == 1

\* changes of the external sources
MaxWorldChanges == 1

(***************************************************************************)
(* State.                                                                  *)
(***************************************************************************)
VARIABLES
  tkvar,          \* the tk.BooleanVar objects, by attribute name
  is_sending,     \* self.is_sending
  closed,         \* the window is destroyed (on_closing ran)
  exited,         \* the interpreter has exited and taken the daemon threads along
  ui_pc,          \* the main thread: "mainloop", or "sleep" inside send_chat_message
  chat,           \* the last call of send_chat_message: the widgets' contents it
                  \* found, the requests it sent, the duration it used, how it ended
  osc,            \* the last osc_client.send_message call and whether it raised
  nthreads,       \* threads started so far
  pc,             \* each thread's place in send_data_to_vrchat
  current_time, media_info, system_usage, gpu_usage, linux_distro, amdgpu_usage,
  message,        \* the locals of send_data_to_vrchat, per thread
  world,          \* the external sources
  clicks, world_changes,   \* counters for MaxClicks and MaxWorldChanges
  send_failed,    \* per thread: its last send_message raised
  held,           \* per thread: the values tkvar has had since its tick began
  stop_seen       \* per thread: is_sending went from True to False while it was alive

locals == <<current_time, media_info, system_usage, gpu_usage, linux_distro, amdgpu_usage, message>>

observed == <<send_failed, held, stop_seen>>

ui == <<ui_pc, chat>>

vars == <<tkvar, is_sending, closed, exited, ui, osc, nthreads, pc, locals, world,
          clicks, world_changes, observed>>

Threads == 1..MaxThreads

VarNames == {"cpu_var", "ram_var", "gpu_var", "media_var", "time_var", "linux_var",
             "amdgpu_var", "is_24hr"}

cpu_var == tkvar["cpu_var"]

ram_var == tkvar["ram_var"]

gpu_var == tkvar["gpu_var"]

media_var == tkvar["media_var"]

time_var == tkvar["time_var"]

linux_var == tkvar["linux_var"]

amdgpu_var == tkvar["amdgpu_var"]

is_24hr == tkvar["is_24hr"]

MAX_MESSAGE_LENGTH == 144

\* places of a thread inside one iteration of the while loop
InTick == {"time", "media", "system", "gpu", "linux", "amdgpu", "compose", "truncate", "send", "sleep"}

Running(t) == ~exited /\ pc[t] \in InTick \cup {"while"}

NoLocals == [t \in Threads |-> ""]

NoSend == [by |-> 0, args |-> <<"", TRUE, FALSE>>, raised |-> FALSE]

\* send_chat_message has not been called
NoChat ==
  [outcome |-> "none", text |-> "", entry |-> "", request |-> <<>>, duration_read |-> FALSE,
   duration |-> 0]

\* The state SystemInfoUI.__init__ leaves, with the checkboxes as tk and the
\* external sources as w; with started, the state after one press on Start
\* (toggle_sending from Idle): thread 1 is at its first loop test.
Panel(tk, w, started) ==
  /\ tkvar = tk
  /\ is_sending = started
  /\ closed = FALSE
  /\ exited = FALSE
  /\ ui_pc = "mainloop"
  /\ chat = NoChat
  /\ osc = NoSend
  /\ nthreads = IF started THEN 1 ELSE 0
  /\ pc = [t \in Threads |-> IF started /\ t = 1 THEN "while" ELSE "unstarted"]
  /\ current_time = NoLocals
  /\ media_info = NoLocals
  /\ system_usage = [t \in Threads |-> <<"", "", "", "">>]
  /\ gpu_usage = NoLocals
  /\ linux_distro = NoLocals
  /\ amdgpu_usage = NoLocals
  /\ message = NoLocals
  /\ world = w
  /\ clicks = 0
  /\ world_changes = 0
  /\ send_failed = [t \in Threads |-> FALSE]
  /\ held = [t \in Threads |-> {}]
  /\ stop_seen = [t \in Threads |-> FALSE]

\* the values the BooleanVar objects are created with
Defaults == [v \in VarNames |-> v # "amdgpu_var"]

\* SystemInfoUI.__init__
Init == \E w \in Worlds : Panel(Defaults, w, FALSE)

(***************************************************************************)
(* send_data_to_vrchat, one step per blocking call.                        *)
(***************************************************************************)
\* while self.is_sending:
LoopCheck(t) ==
  /\ ~exited
  /\ pc[t] = "while"
  /\ pc' = [pc EXCEPT ![t] = IF is_sending THEN "time" ELSE "returned"]
  /\ held' = [held EXCEPT ![t] = IF is_sending THEN {tkvar} ELSE {}]
  /\ UNCHANGED <<tkvar, is_sending, closed, exited, ui, osc, nthreads, locals, world,
                 clicks, world_changes, send_failed, stop_seen>>

\* a reader's call returned r: the local is assigned, or the exception leaves
\* send_data_to_vrchat and ends the thread
Proceed(t, r, next) == pc' = [pc EXCEPT ![t] = IF r.exc = "None" THEN next ELSE "raised"]

ReadClock(t) ==
  /\ ~exited
  /\ pc[t] = "time"
  /\ current_time' = [current_time EXCEPT
                        ![t] = IF time_var THEN get_current_time(is_24hr, world.now) ELSE ""]
  /\ pc' = [pc EXCEPT ![t] = "media"]
  /\ UNCHANGED <<tkvar, is_sending, closed, exited, ui, osc, nthreads, media_info, system_usage,
                 gpu_usage, linux_distro, amdgpu_usage, message, world, clicks, world_changes,
                 observed>>

ReadMedia(t) ==
  /\ ~exited
  /\ pc[t] = "media"
  /\ LET r == IF media_var THEN get_media_info(world.session_bus) ELSE Returned("")
     IN  /\ media_info' = [media_info EXCEPT ![t] = r.val]
         /\ Proceed(t, r, "system")
  /\ UNCHANGED <<tkvar, is_sending, closed, exited, ui, osc, nthreads, current_time, system_usage,
                 gpu_usage, linux_distro, amdgpu_usage, message, world, clicks, world_changes,
                 observed>>

ReadSystem(t) ==
  /\ ~exited
  /\ pc[t] = "system"
  /\ system_usage' = [system_usage EXCEPT
                        ![t] = IF cpu_var \/ ram_var THEN get_system_usage(world.psutil)
                               ELSE <<"", "", "", "">>]
  /\ pc' = [pc EXCEPT ![t] = "gpu"]
  /\ UNCHANGED <<tkvar, is_sending, closed, exited, ui, osc, nthreads, current_time, media_info,
                 gpu_usage, linux_distro, amdgpu_usage, message, world, clicks, world_changes,
                 observed>>

ReadGpu(t) ==
  /\ ~exited
  /\ pc[t] = "gpu"
  /\ LET r == IF gpu_var THEN get_gpu_usage(world.nvidia_smi) ELSE Returned("")
     IN  /\ gpu_usage' = [gpu_usage EXCEPT ![t] = r.val]
         /\ Proceed(t, r, "linux")
  /\ UNCHANGED <<tkvar, is_sending, closed, exited, ui, osc, nthreads, current_time, media_info,
                 system_usage, linux_distro, amdgpu_usage, message, world, clicks, world_changes,
                 observed>>

ReadDistro(t) ==
  /\ ~exited
  /\ pc[t] = "linux"
  /\ LET r == IF linux_var THEN get_linux_distro(world.os_release) ELSE Returned("")
     IN  /\ linux_distro' = [linux_distro EXCEPT ![t] = r.val]
         /\ Proceed(t, r, "amdgpu")
  /\ UNCHANGED <<tkvar, is_sending, closed, exited, ui, osc, nthreads, current_time, media_info,
                 system_usage, gpu_usage, amdgpu_usage, message, world, clicks, world_changes,
                 observed>>

ReadAmdGpu(t) ==
  /\ ~exited
  /\ pc[t] = "amdgpu"
  /\ LET r == IF amdgpu_var
              THEN get_amdgpu_usage(world.radeontop, world.mem_info_vram_total)
              ELSE Returned("")
     IN  /\ amdgpu_usage' = [amdgpu_usage EXCEPT ![t] = r.val]
         /\ Proceed(t, r, "compose")
  /\ UNCHANGED <<tkvar, is_sending, closed, exited, ui, osc, nthreads, current_time, media_info,
                 system_usage, gpu_usage, linux_distro, message, world, clicks, world_changes,
                 observed>>

\* message += ... under a condition
AppendIf(cond, msg, text) == IF cond THEN msg \o text ELSE msg

\* a composer that appends the AMD fragment before the NVIDIA one
ComposedAmdFirst(t) ==
  LET m1 == AppendIf(linux_distro[t] # "", "", linux_distro[t] \o "\n")
      m2 == AppendIf(time_var, m1, CLOCK \o " " \o current_time[t] \o "\n")
      m3 == AppendIf(media_var, m2, media_info[t] \o "\n")
      m4 == AppendIf(cpu_var, m3, COMPUTER \o " " \o system_usage[t][1] \o "% @ "
                                  \o system_usage[t][2] \o "GHz\n")
      m5 == AppendIf(ram_var, m4, FLOPPY \o " " \o system_usage[t][3] \o "GB / "
                                  \o system_usage[t][4] \o "GB\n")
      m6 == AppendIf(amdgpu_var, m5, amdgpu_usage[t])
  IN  AppendIf(gpu_var, m6, gpu_usage[t])

\* lines 254-268: the message built from the locals and from the checkboxes as
\* they are now
Composed(t) ==
  LET m1 == AppendIf(linux_distro[t] # "", "", linux_distro[t] \o "\n")
      m2 == AppendIf(time_var, m1, CLOCK \o " " \o current_time[t] \o "\n")
      m3 == AppendIf(media_var, m2, media_info[t] \o "\n")
      m4 == AppendIf(cpu_var, m3, COMPUTER \o " " \o system_usage[t][1] \o "% @ "
                                  \o system_usage[t][2] \o "GHz\n")
      m5 == AppendIf(ram_var, m4, FLOPPY \o " " \o system_usage[t][3] \o "GB / "
                                  \o system_usage[t][4] \o "GB\n")
      m6 == AppendIf(gpu_var, m5, gpu_usage[t])
  IN  AppendIf(amdgpu_var, m6, amdgpu_usage[t])

Compose(t) ==
  /\ ~exited
  /\ pc[t] = "compose"
  /\ message' = [message EXCEPT ![t] = Composed(t)]
  /\ pc' = [pc EXCEPT ![t] = "truncate"]
  /\ UNCHANGED <<tkvar, is_sending, closed, exited, ui, osc, nthreads, current_time, media_info,
                 system_usage, gpu_usage, linux_distro, amdgpu_usage, world, clicks,
                 world_changes, observed>>

\* a truncation that keeps one unit too many
TruncatedLate(msg) ==
  IF Len(msg) > MAX_MESSAGE_LENGTH THEN SubSeq(msg, 1, MAX_MESSAGE_LENGTH + 1) ELSE msg

\* lines 271-272
Truncated(msg) ==
  IF Len(msg) > MAX_MESSAGE_LENGTH THEN SubSeq(msg, 1, MAX_MESSAGE_LENGTH) ELSE msg

Truncate(t) ==
  /\ ~exited
  /\ pc[t] = "truncate"
  /\ message' = [message EXCEPT ![t] = Truncated(message[t])]
  /\ pc' = [pc EXCEPT ![t] = "send"]
  /\ UNCHANGED <<tkvar, is_sending, closed, exited, ui, osc, nthreads, current_time, media_info,
                 system_usage, gpu_usage, linux_distro, amdgpu_usage, world, clicks,
                 world_changes, observed>>

\* osc_client.send_message("/chatbox/input", [text, True, False]) by caller `by`
\* (a thread, or 0 for the main thread); the datagram leaves or the call raises
SendRequest(by, text, raises) == [by |-> by, args |-> <<text, TRUE, FALSE>>, raised |-> raises]

\* lines 275-278: the exception of a failed send is caught and printed
Send(t) ==
  /\ ~exited
  /\ pc[t] = "send"
  /\ \E raises \in BOOLEAN :
       /\ osc' = SendRequest(t, message[t], raises)
       /\ send_failed' = [send_failed EXCEPT ![t] = raises]
  /\ pc' = [pc EXCEPT ![t] = "sleep"]
  /\ UNCHANGED <<tkvar, is_sending, closed, exited, ui, nthreads, locals, world, clicks,
                 world_changes, held, stop_seen>>

\* time.sleep(1.5); the locals are not read again before the next iteration
\* assigns them and are cleared here
Sleep(t) ==
  /\ ~exited
  /\ pc[t] = "sleep"
  /\ pc' = [pc EXCEPT ![t] = "while"]
  /\ current_time' = [current_time EXCEPT ![t] = ""]
  /\ media_info' = [media_info EXCEPT ![t] = ""]
  /\ system_usage' = [system_usage EXCEPT ![t] = <<"", "", "", "">>]
  /\ gpu_usage' = [gpu_usage EXCEPT ![t] = ""]
  /\ linux_distro' = [linux_distro EXCEPT ![t] = ""]
  /\ amdgpu_usage' = [amdgpu_usage EXCEPT ![t] = ""]
  /\ message' = [message EXCEPT ![t] = ""]
  /\ held' = [held EXCEPT ![t] = {}]
  /\ UNCHANGED <<tkvar, is_sending, closed, exited, ui, osc, nthreads, world, clicks,
                 world_changes, send_failed, stop_seen>>

Tick(t) ==
  \/ LoopCheck(t)
  \/ ReadClock(t)
  \/ ReadMedia(t)
  \/ ReadSystem(t)
  \/ ReadGpu(t)
  \/ ReadDistro(t)
  \/ ReadAmdGpu(t)
  \/ Compose(t)
  \/ Truncate(t)
  \/ Send(t)
  \/ Sleep(t)

send_data_to_vrchat == \E t \in Threads : Tick(t)

(***************************************************************************)
(* The main thread: Tk's event loop runs one handler at a time.            *)
(***************************************************************************)
\* the Start/Stop button
toggle_sending ==
  /\ ui_pc = "mainloop" /\ ~closed
  /\ IF is_sending
     THEN /\ is_sending' = FALSE
          /\ stop_seen' = [t \in Threads |-> stop_seen[t] \/ Running(t)]
          /\ UNCHANGED <<nthreads, pc>>
     ELSE /\ nthreads < MaxThreads
          /\ is_sending' = TRUE
          /\ nthreads' = nthreads + 1
          /\ pc' = [pc EXCEPT ![nthreads + 1] = "while"]
          /\ UNCHANGED stop_seen
  /\ UNCHANGED <<tkvar, closed, exited, ui, osc, locals, world, clicks, world_changes,
                 send_failed, held>>

\* WM_DELETE_WINDOW
on_closing ==
  /\ ui_pc = "mainloop" /\ ~closed
  /\ is_sending' = FALSE
  /\ closed' = TRUE
  /\ stop_seen' = [t \in Threads |-> stop_seen[t] \/ (is_sending /\ Running(t))]
  /\ UNCHANGED <<tkvar, exited, ui, osc, nthreads, pc, locals, world, clicks, world_changes,
                 send_failed, held>>

\* app.mainloop() returns once the window is destroyed and the script ends;
\* daemon threads do not keep the interpreter alive
interpreter_exit ==
  /\ closed /\ ~exited
  /\ exited' = TRUE
  /\ UNCHANGED <<tkvar, is_sending, closed, ui, osc, nthreads, pc, locals, world, clicks,
                 world_changes, observed>>

\* a click on one of the eight ttk.Checkbutton widgets
click_checkbutton(v) ==
  /\ ui_pc = "mainloop" /\ ~closed
  /\ clicks < MaxClicks
  /\ clicks' = clicks + 1
  /\ tkvar' = [tkvar EXCEPT ![v] = ~tkvar[v]]
  /\ held' = [t \in Threads |-> IF pc[t] \in InTick THEN held[t] \cup {tkvar'} ELSE held[t]]
  /\ UNCHANGED <<is_sending, closed, exited, ui, osc, nthreads, pc, locals, world,
                 world_changes, send_failed, stop_seen>>

\* int(self.duration_entry.get()), 5 on a ValueError
get_message_duration(entry) ==
  LET duration == PyInt(entry) IN IF duration.exc = "ValueError" THEN 5 ELSE duration.val

\* the Send Message button or the Return key, with the widgets' contents; the
\* method is left by the exception time.sleep raises for a negative duration,
\* and otherwise after the sleep (chat_wakes)
send_chat_message(text, entry) ==
  /\ ui_pc = "mainloop" /\ ~closed
  /\ LET msg == Strip(text)
         duration == get_message_duration(entry)
     IN  IF msg = ""
         THEN /\ chat' = [outcome |-> "returned", text |-> text, entry |-> entry,
                          request |-> <<>>, duration_read |-> FALSE, duration |-> 0]
              /\ UNCHANGED <<ui_pc, osc>>
         ELSE /\ \E raises \in BOOLEAN : osc' = SendRequest(0, msg, raises)
              /\ chat' = [outcome |-> IF duration < 0 THEN "ValueError" ELSE "sleeping",
                          text |-> text, entry |-> entry, request |-> <<osc'.args>>,
                          duration_read |-> TRUE, duration |-> duration]
              /\ ui_pc' = IF duration < 0 THEN "mainloop" ELSE "sleep"
  /\ UNCHANGED <<tkvar, is_sending, closed, exited, nthreads, pc, locals, world, clicks,
                 world_changes, observed>>

\* time.sleep(duration) of send_chat_message ends and the method returns
chat_wakes ==
  /\ ui_pc = "sleep"
  /\ ui_pc' = "mainloop"
  /\ chat' = [chat EXCEPT !.outcome = "returned"]
  /\ UNCHANGED <<tkvar, is_sending, closed, exited, osc, nthreads, pc, locals, world, clicks,
                 world_changes, observed>>

\* the external sources change between two calls of the readers
world_changes_to(w) ==
  /\ world_changes < MaxWorldChanges
  /\ w # world
  /\ world' = w
  /\ world_changes' = world_changes + 1
  /\ UNCHANGED <<tkvar, is_sending, closed, exited, ui, osc, nthreads, pc, locals, clicks,
                 observed>>

\* Start/Stop presses, closing the window, and the running threads
Next ==
  \/ send_data_to_vrchat
  \/ toggle_sending
  \/ on_closing
  \/ interpreter_exit

Spec == Init /\ [][Next]_vars

\* the same, with external sources that change
NextWorld ==
  \/ Next
  \/ \E w \in Worlds : world_changes_to(w)

SpecWorld == Init /\ [][NextWorld]_vars

\* The chat box, with the loop Idle or Active.
InitChat == \E started \in BOOLEAN : Panel(Defaults, Healthy, started)

NextChat ==
  \/ send_data_to_vrchat
  \/ \E text \in ChatTexts, entry \in DurationEntries : send_chat_message(text, entry)
  \/ chat_wakes

SpecChat == InitChat /\ [][NextChat]_vars

\* The ticks of one thread while the user clicks on the checkboxes, from every
\* value of the checkboxes.
InitClicks == \E tk \in [VarNames -> BOOLEAN] : Panel(tk, Healthy, TRUE)

NextClicks ==
  \/ send_data_to_vrchat
  \/ \E v \in VarNames : click_checkbutton(v)

SpecClicks == InitClicks /\ [][NextClicks]_vars

\* The ticks of one thread with the checkboxes left alone, for every value of
\* the checkboxes and every combination of answers of the external sources.
InitStarted == \E tk \in [VarNames -> BOOLEAN], w \in AllWorlds : Panel(tk, w, TRUE)

SpecCompose == InitStarted /\ [][send_data_to_vrchat]_vars

(***************************************************************************)
(* The message a tick composes when it sees the checkboxes as tk and the   *)
(* external sources as w throughout: the fragments of the enabled sources, *)
(* in the order of the Order list, each with its terminator.               *)
(***************************************************************************)
Order == <<"linux_var", "time_var", "media_var", "cpu_var", "ram_var", "gpu_var", "amdgpu_var">>

FragmentOf(src, tk, w) ==
  CASE src = "linux_var" -> get_linux_distro(w.os_release).val \o "\n"
    [] src = "time_var" -> CLOCK \o " " \o get_current_time(tk["is_24hr"], w.now) \o "\n"
    [] src = "media_var" -> get_media_info(w.session_bus).val \o "\n"
    [] src = "cpu_var" -> COMPUTER \o " " \o get_system_usage(w.psutil)[1] \o "% @ "
                          \o get_system_usage(w.psutil)[2] \o "GHz\n"
    [] src = "ram_var" -> FLOPPY \o " " \o get_system_usage(w.psutil)[3] \o "GB / "
                          \o get_system_usage(w.psutil)[4] \o "GB\n"
    [] src = "gpu_var" -> get_gpu_usage(w.nvidia_smi).val
    [] src = "amdgpu_var" -> get_amdgpu_usage(w.radeontop, w.mem_info_vram_total).val

RECURSIVE JoinEnabled(_, _, _)
JoinEnabled(sources, tk, w) ==
  IF sources = <<>> THEN ""
  ELSE (IF tk[Head(sources)] THEN FragmentOf(Head(sources), tk, w) ELSE "")
       \o JoinEnabled(Tail(sources), tk, w)

SnapshotMessage(tk, w) == JoinEnabled(Order, tk, w)

Contains(s, sub) == Find(s, sub, 1) # 0

IsPrefix(p, s) == Len(p) <= Len(s) /\ SubSeq(s, 1, Len(p)) = p

AllSpace(s) == \A i \in 1..Len(s) : IsSpace(Ch(s, i))

\* no checkbox changed since thread t began its tick
Fixed(t) == held[t] = {tkvar}

CpuErrorLine == COMPUTER \o " Error% @ ErrorGHz"

RamErrorLine == FLOPPY \o " ErrorGB / ErrorGB"

(***************************************************************************)
(* C1                                                                      *)
(***************************************************************************)
\* C1 as stated: with the checkboxes fixed during the tick, the message of the
\* tick (what is handed to the send) consists of exactly the fragments of the
\* enabled sources in the fixed order.
C1_SentMessageHasEveryFragment ==
  \A t \in Threads :
    (pc[t] = "send" /\ Fixed(t)) => message[t] = SnapshotMessage(tkvar, world)

\* C1 as amended: with the checkboxes fixed during the tick, the concatenation
\* built before truncation consists of exactly the fragments of the enabled
\* sources in the fixed order, and so does the message handed to the send
\* whenever that concatenation has at most 144 units.
C1_ConcatenationHasEveryFragment ==
  \A t \in Threads :
    /\ (pc[t] = "truncate" /\ Fixed(t)) => message[t] = SnapshotMessage(tkvar, world)
    /\ (pc[t] = "send" /\ Fixed(t) /\ Len(SnapshotMessage(tkvar, world)) <= MAX_MESSAGE_LENGTH)
         => message[t] = SnapshotMessage(tkvar, world)

\* a tick has composed a message with both GPU sources, CPU and RAM enabled
\* and OS identity, clock and media disabled
C1_Witness ==
  \E t \in Threads :
    /\ pc[t] = "truncate" /\ Fixed(t)
    /\ gpu_var /\ amdgpu_var /\ cpu_var /\ ram_var
    /\ ~linux_var /\ ~time_var /\ ~media_var
    /\ world.nvidia_smi = NvidiaSmi /\ world.radeontop = Radeontop
    /\ message[t] # ""

(***************************************************************************)
(* C2                                                                      *)
(***************************************************************************)
\* C2: the text handed to the send is the concatenation of the fragments when
\* that has at most 144 units, and otherwise its first 144 units; no request
\* of the loop carries more than 144 units.
C2_Truncation ==
  /\ \A t \in Threads :
       (pc[t] = "send" /\ Fixed(t)) =>
         LET full == SnapshotMessage(tkvar, world)
         IN  /\ Len(message[t]) <= 144
             /\ IsPrefix(message[t], full)
             /\ Len(full) <= 144 => message[t] = full
             /\ Len(full) > 144 => Len(message[t]) = 144
  /\ osc.by \in Threads => Len(osc.args[1]) <= 144

\* a tick hands a cut message to the send
C2_Witness ==
  \E t \in Threads :
    /\ pc[t] = "send" /\ Fixed(t)
    /\ Len(SnapshotMessage(tkvar, world)) > 144
    /\ Len(message[t]) = 144

(***************************************************************************)
(* C5                                                                      *)
(***************************************************************************)
\* C5 as stated: in a tick whose CPU/RAM reader failed, the message of the tick
\* holds the CPU line and the RAM line with Error in the value positions, for
\* each of the two that is enabled.
C5_SentMessageHasErrorLines ==
  \A t \in Threads :
    (pc[t] = "send" /\ Fixed(t) /\ world.psutil.exc # "None") =>
      /\ cpu_var => Contains(message[t], CpuErrorLine)
      /\ ram_var => Contains(message[t], RamErrorLine)

\* C5 as amended: in a tick whose CPU/RAM reader failed, the reader returns
\* four Error values, the thread goes on, and the concatenation built before
\* truncation holds the CPU line and the RAM line with Error in the value
\* positions, for each of the two that is enabled; so does the message handed
\* to the send whenever the concatenation has at most 144 units.
C5_ConcatenationHasErrorLines ==
  \A t \in Threads :
    LET failed == Fixed(t) /\ world.psutil.exc # "None" /\ (cpu_var \/ ram_var)
    IN  /\ (pc[t] \in {"gpu", "linux", "amdgpu", "compose"} /\ failed)
             => system_usage[t] = <<"Error", "Error", "Error", "Error">>
        /\ (failed /\ (pc[t] = "truncate"
                       \/ (pc[t] = "send"
                           /\ Len(SnapshotMessage(tkvar, world)) <= MAX_MESSAGE_LENGTH))) =>
             /\ cpu_var => Contains(message[t], CpuErrorLine \o "\n")
             /\ ram_var => Contains(message[t], RamErrorLine \o "\n")

\* a tick whose CPU/RAM reader failed has composed a message with both lines
C5_Witness ==
  \E t \in Threads :
    /\ pc[t] = "truncate" /\ Fixed(t)
    /\ world.psutil.exc # "None" /\ cpu_var /\ ram_var
    /\ Contains(message[t], CpuErrorLine) /\ Contains(message[t], RamErrorLine)

(***************************************************************************)
(* C3, C4                                                                  *)
(***************************************************************************)
\* C3: whatever the external source of an enabled reader answers, the reader
\* returns a fragment and the thread goes on to the send and the sleep of the
\* tick; no thread is ended by an exception.
C3_NoReaderEndsTheLoop == \A t \in Threads : pc[t] # "raised"

\* C4: a thread whose send failed sleeps, tests is_sending and, while that is
\* True, goes through the next tick to a new send; it ends only by returning
\* from the loop test.
C4_LoopSurvivesFailedSend == \A t \in Threads : send_failed[t] => pc[t] # "raised"

(***************************************************************************)
(* C6, C7                                                                  *)
(***************************************************************************)
\* C6: a call of send_chat_message that finds only whitespace in the text
\* widget sends no request, does not read the duration entry and has returned
\* (the main thread is back in the event loop), whatever the entry holds and
\* whether a loop thread runs or not.
C6_BlankTextSendsNothing ==
  (chat.outcome # "none" /\ AllSpace(chat.text)) =>
    /\ chat.request = <<>>
    /\ ~chat.duration_read
    /\ chat.outcome = "returned"
    /\ ui_pc = "mainloop"

\* the call found blanks and a line break, with a loop thread running
C6_Witness ==
  /\ chat.outcome = "returned" /\ chat.text = " \n " /\ chat.entry = "-3"
  /\ is_sending /\ \E t \in Threads : pc[t] \in InTick

\* the duration entry holds the decimal notation of a number of seconds
IsDuration(entry) == AllDigits(Strip(entry))

\* C7: a call that finds other text sends one request with the trimmed text
\* and (True, False), sleeps for the duration and returns normally; the
\* duration is 5 for every entry that is not a valid duration.
C7_SendsOnceSleepsReturns ==
  (chat.outcome # "none" /\ ~AllSpace(chat.text)) =>
    /\ chat.request = << <<Strip(chat.text), TRUE, FALSE>> >>
    /\ chat.outcome \in {"sleeping", "returned"}
    /\ ~IsDuration(chat.entry) => chat.duration = 5

(***************************************************************************)
(* C8, C9                                                                  *)
(***************************************************************************)
\* C8: a thread that was running when is_sending went from True to False
\* leaves its next loop test by returning, whatever the user did since.
C8_StoppedLoopExitsAtBoundary ==
  [][\A t \in Threads :
       (stop_seen[t] /\ pc[t] = "while" /\ pc'[t] # "while") => pc'[t] = "returned"]_vars

\* C9: at most one thread is inside send_data_to_vrchat at any time, and
\* exactly one while is_sending is True.
C9_OneLoopContext ==
  LET alive == {t \in Threads : Running(t)}
  IN  /\ Cardinality(alive) <= 1
      /\ (is_sending /\ ~exited) => Cardinality(alive) = 1

(***************************************************************************)
(* C10                                                                     *)
(***************************************************************************)
\* C10: the message a tick composes is the one a tick composes that sees, from
\* its start to its end, one of the values the checkboxes had during the tick.
C10_MessageOfOneSnapshot ==
  \A t \in Threads :
    pc[t] = "truncate" => \E tk \in held[t] : message[t] = SnapshotMessage(tk, world)

====
